---- MODULE Spec2Model ----
(***************************************************************************)
(* The in-memory key-value store of greedy-api: KeyValueStore with its     *)
(* Set, Get, QPush, QPop and BQPop methods (src/methods.go), called by     *)
(* concurrent request handlers (src/handlers.go) and guarded by one        *)
(* sync.RWMutex (src/unnamed/part_005).                                    *)
(*                                                                         *)
(* A Go string is a sequence of one-character strings.  Time is counted in *)
(* units of 1/UnitsPerSecond second, so that a float64 timeout with a      *)
(* fractional part is representable; the zero time.Time is instant 0 and   *)
(* the wall clock starts after it.                                         *)
(*                                                                         *)
(* Each caller is the goroutine of one request at a time: the request      *)
(* arrives (Call...), the method takes the mutex (Lock, RLock), runs up to *)
(* its return or its next blocking point (...Body, GetFinish, BQPopSelect) *)
(* and the handler answers (Respond).  stack is not program state: it is   *)
(* the reference stack the queue commands are compared with.               *)
(*                                                                         *)
(* The commands are explored by family: SpecQueue (QPUSH, QPOP, BQPOP),    *)
(* SpecKV (SET, GET), SpecExpiry (SET with QPUSH and QPOP), SpecWaiters    *)
(* (two BQPOP callers and a third that pushes and pops), SpecFrame (one    *)
(* caller, every command, two keys), SpecReadWrite (a reader beside a      *)
(* writer) and SpecHandler (command lines parsed by handleRequest).        *)
(***************************************************************************)
EXTENDS Integers, Sequences, FiniteSets, TLC

\* ------------------------------------------------------------------ bounds
MaxTime == 3
MaxLen == 4
MaxValues == 2
MaxTimeout == 2
MaxExpirySeconds == 1

\* clock units per second: timeouts are float64 seconds, here halves of a second
UnitsPerSecond == 2

\* the concurrent callers (one goroutine per request) and the keys they use
Procs == {1, 2}
Keys == {"k1"}

\* with a third caller, for the scenarios of two waiters and one pusher
Pusher == 3
Waiters == Procs
AllProcs == Waiters \cup {Pusher}
AllKeys == {"k1", "k2"}

Space == " "
Tokens == {<<"a">>, <<"b">>}
EmptyString == <<>>
OK == <<"O", "K">>

\* error texts of the store's methods; NilError is Go's nil error
NilError == "nil"
ErrKeyExists == "key already exists"
ErrKeyMissing == "key does not exist"
ErrExpired == "key has expired"
ErrNotFound == "key not found"
ErrQueueEmpty == "queue is empty"
ErrNoQueue == "queue does not exist"
ErrTimeout == "timeout exceeded"

\* error texts of handleRequest; BadRequestNoBody is a 400 answer without body
ErrInvalidCommand == "invalid command"
ErrInvalidTimeout == "invalid timeout"
ErrUnknownCommand == "unknown command"
BadRequestNoBody == "400 without body"

\* ------------------------------------------------------------------ strings
RECURSIVE FieldsFrom(_, _, _)
FieldsFrom(s, cur, acc) ==
    IF s = <<>> THEN (IF cur = <<>> THEN acc ELSE Append(acc, cur))
    ELSE IF Head(s) = Space
         THEN FieldsFrom(Tail(s), <<>>, IF cur = <<>> THEN acc ELSE Append(acc, cur))
         ELSE FieldsFrom(Tail(s), Append(cur, Head(s)), acc)

\* strings.Fields: the maximal runs of non-space characters of s
Fields(s) == FieldsFrom(s, <<>>, <<>>)

RECURSIVE Join(_, _)
\* strings.Join: the elements of elems with sep between neighbours
Join(elems, sep) ==
    IF elems = <<>> THEN <<>>
    ELSE IF Len(elems) = 1 THEN elems[1]
    ELSE elems[1] \o sep \o Join(Tail(elems), sep)

RECURSIVE AppendValues(_, _)
\* the loop of QPush: value += v + " " for each v in order
AppendValues(value, values) ==
    IF values = <<>> THEN value
    ELSE AppendValues(value \o Head(values) \o <<Space>>, Tail(values))

\* ------------------------------------------------------------------ numbers
DigitValue ==
    ("0" :> 0) @@ ("1" :> 1) @@ ("2" :> 2) @@ ("3" :> 3) @@ ("4" :> 4) @@
    ("5" :> 5) @@ ("6" :> 6) @@ ("7" :> 7) @@ ("8" :> 8) @@ ("9" :> 9)

IsDigits(s) == s /= <<>> /\ \A i \in 1..Len(s) : s[i] \in DOMAIN DigitValue

RECURSIVE DigitsValue(_, _)
DigitsValue(s, acc) ==
    IF s = <<>> THEN acc ELSE DigitsValue(Tail(s), acc * 10 + DigitValue[Head(s)])

Signed(s) == s /= <<>> /\ Head(s) \in {"+", "-"}
Unsigned(s) == IF Signed(s) THEN Tail(s) ELSE s
SignOf(s) == IF s /= <<>> /\ Head(s) = "-" THEN -1 ELSE 1

\* strconv.Atoi: an optional sign and decimal digits, anything else an error
Atoi(s) ==
    IF IsDigits(Unsigned(s))
    THEN [ok |-> TRUE, n |-> SignOf(s) * DigitsValue(Unsigned(s), 0)]
    ELSE [ok |-> FALSE, n |-> 0]

\* the digits of s before its first "."
RECURSIVE Whole(_)
Whole(s) ==
    IF s = <<>> \/ Head(s) = "." THEN <<>> ELSE <<Head(s)>> \o Whole(Tail(s))

\* strconv.ParseFloat for decimal tokens with at most one fraction digit, 0
\* or 5, in clock units: an optional sign, digits, and ".0" or ".5"
ParseFloat(s) ==
    LET u == Unsigned(s)
        whole == Whole(u)
        frac == SubSeq(u, Len(whole) + 1, Len(u))
    IN  IF IsDigits(whole) /\ frac \in {<<>>, <<".", "0">>, <<".", "5">>}
        THEN [ok |-> TRUE,
              n |-> SignOf(s) * (DigitsValue(whole, 0) * UnitsPerSecond
                                  + (IF frac = <<".", "5">>
                                     THEN UnitsPerSecond \div 2 ELSE 0))]
        ELSE [ok |-> FALSE, n |-> 0]

\* ------------------------------------------------------------------ time
\* time.Duration(timeout): a float64 converted to int64 truncates toward zero
DurationOf(timeout) ==
    IF timeout >= 0 THEN timeout \div UnitsPerSecond
    ELSE -((-timeout) \div UnitsPerSecond)

\* time.Duration(timeout) * time.Second, in clock units
SleepUnits(timeout) == DurationOf(timeout) * UnitsPerSecond

\* the zero time.Time, which handleRequest passes when the command has no EX
ZeroTime == 0

\* time.Now().After(*expiryTime) with a non-nil expiryTime
Expired(entry, t) == entry.expiryTime /= <<>> /\ t > entry.expiryTime[1]

\* ------------------------------------------------------------------ state
VARIABLES
    data,       \* store.data: a map from key to [value, expiryTime]
    writer,     \* the calls holding store.mutex for writing (at most one)
    readers,    \* the calls holding store.mutex for reading
    now,        \* the wall clock
    pc,         \* where each caller is
    req,        \* the request each caller is serving
    frames,     \* the store methods on each caller's stack, innermost last
    ret,        \* what the store method returned to the caller
    callTime,   \* the clock when the caller's queue request arrived
    valueChan,  \* BQPop's valueChan of each caller (capacity 1)
    timer,      \* BQPop's timer goroutine of each caller
    found,      \* Get's keyValue, ok := store.data[key] of each caller
    fatal,      \* the Go runtime has thrown a fatal error: the process is gone
    stack       \* per key: the reference stack of the elements pushed and not popped

vars == <<data, writer, readers, now, pc, req, frames, ret, callTime, valueChan,
          timer, found, fatal, stack>>

NoReq == [op |-> "none", key |-> "", value |-> <<>>, values |-> <<>>,
          expiryTime |-> 0, condition |-> "", timeout |-> 0, parts |-> <<>>]
NoRet == [value |-> <<>>, err |-> NilError]
NoTimer == [state |-> "none", wake |-> 0]
NotFound == <<>>

\* the reference stack of a key that is no longer a queue of pushed elements:
\* SET has written it, or a pop has returned something else than its top
Tainted == <<<<"?">>>>

Init ==
    /\ data = <<>>
    /\ writer = {}
    /\ readers = {}
    /\ now = 1
    /\ pc = [p \in AllProcs |-> "idle"]
    /\ req = [p \in AllProcs |-> NoReq]
    /\ frames = [p \in AllProcs |-> <<>>]
    /\ ret = [p \in AllProcs |-> NoRet]
    /\ callTime = [p \in AllProcs |-> 0]
    /\ valueChan = [p \in AllProcs |-> <<>>]
    /\ timer = [p \in AllProcs |-> NoTimer]
    /\ found = [p \in AllProcs |-> NotFound]
    /\ fatal = FALSE
    /\ stack = [k \in AllKeys |-> <<>>]

\* ------------------------------------------------------------------ the map
Has(d, k) == k \in DOMAIN d
Put(d, k, e) == [x \in DOMAIN d \cup {k} |-> IF x = k THEN e ELSE d[x]]
\* a delete that clears the whole map
DeleteEverything(d, k) == <<>>
Delete(d, k) == [x \in DOMAIN d \ {k} |-> d[x]]
KeyValue(value, expiryTime) == [value |-> value, expiryTime |-> expiryTime]
Result(d, value, err) == [data |-> d, value |-> value, err |-> err]

\* ------------------------------------------------------------------ methods
\* a Set that writes whatever the condition
SetOverwriting(d, key, value, expiryTime, condition) ==
    Result(Put(d, key, KeyValue(value, <<expiryTime>>)), OK, NilError)

\* a Set with the two conditions exchanged
SetSwapped(d, key, value, expiryTime, condition) ==
    IF condition = "XX" /\ Has(d, key) THEN Result(d, EmptyString, ErrKeyExists)
    ELSE IF condition = "NX" /\ ~Has(d, key) THEN Result(d, EmptyString, ErrKeyMissing)
    ELSE Result(Put(d, key, KeyValue(value, <<expiryTime>>)), OK, NilError)

\* Set, between Lock and the deferred Unlock
Set(d, key, value, expiryTime, condition) ==
    IF condition = "NX" /\ Has(d, key) THEN Result(d, EmptyString, ErrKeyExists)
    ELSE IF condition = "XX" /\ ~Has(d, key) THEN Result(d, EmptyString, ErrKeyMissing)
    ELSE Result(Put(d, key, KeyValue(value, <<expiryTime>>)), OK, NilError)

\* Get after its map lookup found keyValue, at clock t
GetFound(d, key, keyValue, t) ==
    IF Expired(keyValue, t)
    THEN Result(Delete(d, key), EmptyString, ErrExpired)
    ELSE Result(d, keyValue.value, NilError)

\* a QPush that creates the key and appends nothing
QPushNotAppending(d, key, values) ==
    Result(IF Has(d, key) THEN d ELSE Put(d, key, KeyValue(EmptyString, <<>>)),
           EmptyString, NilError)

\* QPush, between Lock and the deferred Unlock
QPush(d, key, values) ==
    LET created == IF Has(d, key) THEN d ELSE Put(d, key, KeyValue(EmptyString, <<>>))
    IN  Result(Put(created, key,
                   KeyValue(AppendValues(created[key].value, values),
                            created[key].expiryTime)),
               EmptyString, NilError)

\* a QPop that deletes the key together with its last element
QPopDroppingKey(d, key, t) ==
    IF Has(d, key)
    THEN IF Expired(d[key], t)
         THEN Result(Delete(d, key), EmptyString, ErrQueueEmpty)
         ELSE LET values == Fields(d[key].value)
              IN  IF Len(values) > 1
                  THEN Result(Put(d, key,
                                  KeyValue(Join(SubSeq(values, 1, Len(values) - 1),
                                                <<Space>>),
                                           d[key].expiryTime)),
                              values[Len(values)], NilError)
                  ELSE IF Len(values) = 1
                  THEN Result(Delete(d, key), values[1], NilError)
                  ELSE Result(Delete(d, key), EmptyString, ErrQueueEmpty)
    ELSE Result(d, EmptyString, ErrNotFound)

\* QPop, between Lock and the deferred Unlock, at clock t
QPop(d, key, t) ==
    IF Has(d, key)
    THEN IF Expired(d[key], t)
         THEN Result(Delete(d, key), EmptyString, ErrQueueEmpty)
         ELSE LET values == Fields(d[key].value)
              IN  IF Len(values) > 0
                  THEN Result(Put(d, key,
                                  KeyValue(Join(SubSeq(values, 1, Len(values) - 1),
                                                <<Space>>),
                                           d[key].expiryTime)),
                              values[Len(values)], NilError)
                  ELSE Result(Delete(d, key), EmptyString, ErrQueueEmpty)
    ELSE Result(d, EmptyString, ErrNotFound)

\* where BQPop goes after taking the lock: "absent" returns at once, "pop"
\* calls store.QPop, "zero" returns at once, "wait" starts the timer and selects
BQPopBranch(d, key, timeout) ==
    IF ~Has(d, key) THEN "absent"
    ELSE IF Len(Fields(d[key].value)) > 0 THEN "pop"
    ELSE IF timeout = 0 THEN "zero"
    ELSE "wait"

\* ------------------------------------------------------------------ callers
Max(a, b) == IF a >= b THEN a ELSE b

RECURSIVE AddedLen(_)
\* the characters QPush appends for values
AddedLen(values) ==
    IF values = <<>> THEN 0 ELSE Len(Head(values)) + 1 + AddedLen(Tail(values))

Pending(p) == pc[p] \in {"lock", "body"}

RECURSIVE PendingPushLen(_, _)
PendingPushLen(ps, k) ==
    IF ps = {} THEN 0
    ELSE LET p == CHOOSE q \in ps : TRUE
         IN  (IF Pending(p) /\ req[p].op = "QPUSH" /\ req[p].key = k
              THEN AddedLen(req[p].values) ELSE 0)
             + PendingPushLen(ps \ {p}, k)

CurLen(k) == IF Has(data, k) THEN Len(data[k].value) ELSE 0
SetPending(k) == \E p \in AllProcs : Pending(p) /\ req[p].op = "SET" /\ req[p].key = k

\* the values of one QPUSH command: one to MaxValues tokens
ValueLists == UNION {[1..n -> Tokens] : n \in 1..MaxValues}

Start(p, r, method, at, arrived) ==
    /\ ~fatal
    /\ pc[p] = "idle"
    /\ req' = [req EXCEPT ![p] = r]
    /\ frames' = [frames EXCEPT ![p] = <<method>>]
    /\ pc' = [pc EXCEPT ![p] = at]
    /\ callTime' = [callTime EXCEPT ![p] = arrived]
    /\ UNCHANGED <<found, fatal, data, writer, readers, now, ret, valueChan, timer, stack>>

\* handleRequest, case "SET": the expiry is computed before Set takes the lock
CallSet(p, k) ==
    \E v \in Tokens, c \in {"", "NX", "XX"},
       ex \in {ZeroTime} \cup {now + s * UnitsPerSecond : s \in 0..MaxExpirySeconds} :
        /\ Max(CurLen(k), Len(v)) + PendingPushLen(AllProcs, k) <= MaxLen
        /\ Start(p, [NoReq EXCEPT !.op = "SET", !.key = k, !.value = v,
                                  !.expiryTime = ex, !.condition = c], "Set", "lock", 0)

\* handleRequest, case "GET"
CallGet(p, k) ==
    Start(p, [NoReq EXCEPT !.op = "GET", !.key = k], "Get", "rlock", 0)

\* handleRequest, case "QPUSH"
CallQPush(p, k) ==
    \E vs \in ValueLists :
        /\ (IF SetPending(k) THEN Max(CurLen(k), 1) ELSE CurLen(k))
             + PendingPushLen(AllProcs, k) + AddedLen(vs) <= MaxLen
        /\ Start(p, [NoReq EXCEPT !.op = "QPUSH", !.key = k, !.values = vs],
                 "QPush", "lock", now)

\* handleRequest, case "QPOP"
CallQPop(p, k) ==
    Start(p, [NoReq EXCEPT !.op = "QPOP", !.key = k], "QPop", "lock", now)

\* handleRequest, case "BQPOP": the timeout is a float64 of seconds
CallBQPop(p, k) ==
    \E t \in 0..MaxTimeout :
        /\ Start(p, [NoReq EXCEPT !.op = "BQPOP", !.key = k, !.timeout = t],
                 "BQPop", "lock", now)

\* ------------------------------------------------------------------ commands
\* the tokens of a command: strings.Fields(command).  parts[1] is the verb,
\* parts[2] the key, the rest the arguments (Go counts from 0)
SET == <<"S", "E", "T">>
GET == <<"G", "E", "T">>
QPUSH == <<"Q", "P", "U", "S", "H">>
QPOP == <<"Q", "P", "O", "P">>
BQPOP == <<"B", "Q", "P", "O", "P">>
EX == <<"E", "X">>
NX == <<"N", "X">>
XX == <<"X", "X">>

\* the verbs sent: the five of the switch, two in other spellings, one unknown
Verbs == {SET, GET, QPUSH, QPOP, BQPOP,
          <<"s", "e", "t">>, <<"G", "e", "t">>, <<"F", "O", "O">>}
ArgTokens == {<<"a">>, EX, NX, XX, <<"1">>, <<"-", "1">>}
MaxArgs == 3
ArgLists == UNION {[1..n -> ArgTokens] : n \in 0..MaxArgs}
Commands ==
    {<<v>> : v \in Verbs}
    \cup {<<v, k>> \o args : v \in Verbs, k \in Keys, args \in ArgLists}

\* what handleRequest does with a command: it calls a store method, or it
\* answers at once with err
CallStore(r, method, at, arrived) ==
    [call |-> TRUE, req |-> r, method |-> method, at |-> at, arrived |-> arrived,
     err |-> NilError]
Answer(err) ==
    [call |-> FALSE, req |-> NoReq, method |-> "", at |-> "", arrived |-> 0,
     err |-> err]

RECURSIVE SetOptions(_, _, _, _, _)
\* case "SET", the loop over parts[3:] and the call of store.Set.  The two
\* rejections inside the loop return before the response is encoded.
SetOptions(parts, i, expiryTime, condition, t) ==
    IF i > Len(parts)
    THEN CallStore([NoReq EXCEPT !.op = "SET", !.key = parts[2], !.value = parts[3],
                                 !.expiryTime = expiryTime, !.condition = condition],
                   "Set", "lock", 0)
    ELSE IF parts[i] = EX /\ i + 1 <= Len(parts)
    THEN LET expirySeconds == Atoi(parts[i + 1])
         IN  IF ~expirySeconds.ok THEN Answer(BadRequestNoBody)
             ELSE SetOptions(parts, i + 2, t + expirySeconds.n * UnitsPerSecond,
                             condition, t)
    ELSE IF parts[i] = NX THEN SetOptions(parts, i + 1, expiryTime, "NX", t)
    ELSE IF parts[i] = XX THEN SetOptions(parts, i + 1, expiryTime, "XX", t)
    ELSE Answer(BadRequestNoBody)

\* handleRequest from strings.Fields to the call of the store method, at clock t
HandleRequest(parts, t) ==
    IF Len(parts) < 2 THEN Answer(BadRequestNoBody)
    ELSE IF parts[1] = SET
    THEN IF Len(parts) < 3 THEN Answer(ErrInvalidCommand)
         ELSE SetOptions(parts, 4, ZeroTime, "", t)
    ELSE IF parts[1] = GET
    THEN IF Len(parts) /= 2 THEN Answer(ErrInvalidCommand)
         ELSE CallStore([NoReq EXCEPT !.op = "GET", !.key = parts[2]],
                        "Get", "rlock", 0)
    ELSE IF parts[1] = QPUSH
    THEN IF Len(parts) < 3 THEN Answer(ErrInvalidCommand)
         ELSE CallStore([NoReq EXCEPT !.op = "QPUSH", !.key = parts[2],
                                      !.values = SubSeq(parts, 3, Len(parts))],
                        "QPush", "lock", t)
    ELSE IF parts[1] = QPOP
    THEN IF Len(parts) /= 2 THEN Answer(ErrInvalidCommand)
         ELSE CallStore([NoReq EXCEPT !.op = "QPOP", !.key = parts[2]],
                        "QPop", "lock", t)
    ELSE IF parts[1] = BQPOP
    THEN IF Len(parts) /= 3 THEN Answer(ErrInvalidCommand)
         ELSE LET timeout == ParseFloat(parts[3])
              IN  IF ~timeout.ok THEN Answer(ErrInvalidTimeout)
                  ELSE CallStore([NoReq EXCEPT !.op = "BQPOP", !.key = parts[2],
                                               !.timeout = timeout.n],
                                 "BQPop", "lock", t)
    ELSE Answer(ErrUnknownCommand)

\* the values stored are the tokens of Tokens, and the stored string stays
\* within MaxLen after the call r
FitsStore(r) ==
    CASE r.op = "SET" -> r.value \in Tokens
      [] r.op = "QPUSH" -> /\ \A i \in 1..Len(r.values) : r.values[i] \in Tokens
                           /\ CurLen(r.key) + AddedLen(r.values) <= MaxLen
      [] OTHER -> TRUE

\* a request with a command arrives: handleRequest up to the store method's
\* Lock or RLock, or up to its own answer
CallCommand(p) ==
    \E parts \in Commands :
        LET h == HandleRequest(parts, now)
        IN  IF h.call
            THEN /\ FitsStore(h.req)
                 /\ Start(p, [h.req EXCEPT !.parts = parts], h.method, h.at, h.arrived)
            ELSE /\ ~fatal
                 /\ pc[p] = "idle"
                 /\ req' = [req EXCEPT ![p] = [NoReq EXCEPT !.parts = parts]]
                 /\ ret' = [ret EXCEPT ![p] = [value |-> EmptyString, err |-> h.err]]
                 /\ pc' = [pc EXCEPT ![p] = "done"]
                 /\ UNCHANGED <<found, fatal, data, writer, readers, now, frames,
                                callTime, valueChan, timer, stack>>

\* ------------------------------------------------------------------ the mutex
\* store.mutex.Lock(): exclusive, and not reentrant: a caller that holds the
\* mutex and locks it again (BQPop calling QPop) waits for itself
Lock(p) ==
    /\ ~fatal
    /\ pc[p] = "lock"
    /\ writer = {} /\ readers = {}
    /\ writer' = {p}
    /\ pc' = [pc EXCEPT ![p] = "body"]
    /\ UNCHANGED <<found, fatal, data, readers, now, req, frames, ret, callTime, valueChan, timer,
                   stack>>

\* an RLock that does not wait for the writer
RLockUnguarded(p) ==
    /\ ~fatal
    /\ pc[p] = "rlock"
    /\ readers' = readers \cup {p}
    /\ pc' = [pc EXCEPT ![p] = "body"]
    /\ UNCHANGED <<found, fatal, data, writer, now, req, frames, ret, callTime, valueChan, timer,
                   stack>>

\* store.mutex.RLock(): shared among readers.  (sync.RWMutex also holds new
\* readers back once a writer has begun its Lock; a caller at "lock" may not
\* have begun it yet, so every order allowed here can happen.)
RLock(p) ==
    /\ ~fatal
    /\ pc[p] = "rlock"
    /\ writer = {}
    /\ readers' = readers \cup {p}
    /\ pc' = [pc EXCEPT ![p] = "body"]
    /\ UNCHANGED <<found, fatal, data, writer, now, req, frames, ret, callTime, valueChan, timer,
                   stack>>

Method(p) == frames[p][Len(frames[p])]

\* a method returns r to the handler and its deferred Unlock runs
Return(p, r) ==
    /\ ret' = [ret EXCEPT ![p] = [value |-> r.value, err |-> r.err]]
    /\ frames' = [frames EXCEPT ![p] = <<>>]
    /\ pc' = [pc EXCEPT ![p] = "done"]
    /\ writer' = writer \ {p}
    /\ readers' = readers \ {p}

\* ------------------------------------------------------------------ reference stack
IsTainted(k) == stack[k] = Tainted

\* the reference stack of key after a Set or a Get left the store as d
StackAfterWrite(d, key, wrote) ==
    IF ~Has(d, key) THEN <<>> ELSE IF wrote THEN Tainted ELSE stack[key]

\* the reference stack of key after QPush(key, values)
StackAfterPush(key, values) ==
    IF IsTainted(key) THEN Tainted ELSE stack[key] \o values

\* the reference stack of key after a QPop that returned r
StackAfterPop(key, r) ==
    IF ~Has(r.data, key) THEN <<>>
    ELSE IF IsTainted(key) THEN Tainted
    ELSE IF r.err = NilError /\ stack[key] /= <<>>
            /\ r.value = stack[key][Len(stack[key])]
         THEN SubSeq(stack[key], 1, Len(stack[key]) - 1)
         ELSE Tainted

\* ------------------------------------------------------------------ method bodies
InBody(p, method) ==
    ~fatal /\ pc[p] = "body" /\ frames[p] /= <<>> /\ Method(p) = method

SetBody(p) ==
    /\ InBody(p, "Set")
    /\ LET r == Set(data, req[p].key, req[p].value, req[p].expiryTime,
                    req[p].condition)
       IN  /\ data' = r.data
           /\ stack' = [stack EXCEPT
                          ![req[p].key] = StackAfterWrite(r.data, req[p].key,
                                                          r.err = NilError)]
           /\ Return(p, r)
    /\ UNCHANGED <<found, fatal, now, req, callTime, valueChan, timer>>

\* Get, the map lookup: keyValue, ok := store.data[key]
GetBody(p) ==
    /\ InBody(p, "Get")
    /\ IF Has(data, req[p].key)
       THEN /\ found' = [found EXCEPT ![p] = <<data[req[p].key]>>]
            /\ pc' = [pc EXCEPT ![p] = "found"]
            /\ UNCHANGED <<writer, readers, frames, ret>>
       ELSE /\ Return(p, Result(data, EmptyString, ErrNotFound))
            /\ UNCHANGED found
    /\ UNCHANGED <<data, now, req, callTime, valueChan, timer, fatal, stack>>

\* another Get that holds the read lock too and has a map access still to make
Racing(p) ==
    \E q \in readers \ {p} :
        \/ pc[q] = "body"
        \/ pc[q] = "found" /\ Expired(found[q][1], now)

\* Get, after the lookup: the expiry test, the delete and the return.  The
\* delete is a map write under the read lock: when it races with another
\* reader's map access the runtime may throw "concurrent map writes" (or
\* "concurrent map read and map write"), or the race goes unnoticed.
GetFinish(p) ==
    /\ ~fatal
    /\ pc[p] = "found"
    /\ LET r == GetFound(data, req[p].key, found[p][1], now)
       IN  \/ /\ data' = r.data
              /\ stack' = [stack EXCEPT
                             ![req[p].key] = StackAfterWrite(r.data, req[p].key, FALSE)]
              /\ found' = [found EXCEPT ![p] = NotFound]
              /\ Return(p, r)
              /\ UNCHANGED fatal
           \/ /\ r.err = ErrExpired /\ Racing(p)
              /\ fatal' = TRUE
              /\ UNCHANGED <<data, stack, found, ret, frames, pc, writer, readers>>
    /\ UNCHANGED <<now, req, callTime, valueChan, timer>>

QPushBody(p) ==
    /\ InBody(p, "QPush")
    /\ LET r == QPush(data, req[p].key, req[p].values)
       IN  /\ data' = r.data
           /\ stack' = [stack EXCEPT
                          ![req[p].key] = StackAfterPush(req[p].key, req[p].values)]
           /\ Return(p, r)
    /\ UNCHANGED <<found, fatal, now, req, callTime, valueChan, timer>>

\* QPop called by the handler, or by BQPop (whose deferred Unlock then follows)
QPopBody(p) ==
    /\ InBody(p, "QPop")
    /\ LET r == QPop(data, req[p].key, now)
       IN  /\ data' = r.data
           /\ stack' = [stack EXCEPT ![req[p].key] = StackAfterPop(req[p].key, r)]
           /\ Return(p, r)
    /\ UNCHANGED <<found, fatal, now, req, callTime, valueChan, timer>>

\* BQPop from taking the lock to its first return, call or select
BQPopBody(p) ==
    /\ InBody(p, "BQPop")
    /\ LET branch == BQPopBranch(data, req[p].key, req[p].timeout)
       IN  \/ /\ branch = "absent"
              /\ Return(p, Result(data, EmptyString, ErrNoQueue))
              /\ UNCHANGED <<valueChan, timer>>
           \/ /\ branch = "pop"
              /\ frames' = [frames EXCEPT ![p] = Append(@, "QPop")]
              /\ pc' = [pc EXCEPT ![p] = "lock"]
              /\ UNCHANGED <<writer, readers, ret, valueChan, timer>>
           \/ /\ branch = "zero"
              /\ Return(p, Result(data, EmptyString, NilError))
              /\ UNCHANGED <<valueChan, timer>>
           \/ /\ branch = "wait"
              /\ valueChan' = [valueChan EXCEPT ![p] = <<>>]
              /\ timer' = [timer EXCEPT
                             ![p] = [state |-> "sleep",
                                     wake |-> now + SleepUnits(req[p].timeout)]]
              /\ pc' = [pc EXCEPT ![p] = "select"]
              /\ UNCHANGED <<writer, readers, ret, frames>>
    /\ UNCHANGED <<found, fatal, data, now, req, callTime, stack>>

\* a timer goroutine that sends and goes round to send again
TimerSendAgain(p) ==
    /\ ~fatal
    /\ timer[p].state = "sleep"
    /\ now >= timer[p].wake
    /\ Len(valueChan[p]) < 1
    /\ valueChan' = [valueChan EXCEPT ![p] = Append(@, EmptyString)]
    /\ UNCHANGED <<found, fatal, data, writer, readers, now, pc, req, frames, ret, callTime,
                   stack, timer>>

\* the timer goroutine: time.Sleep, then valueChan <- ""
TimerSend(p) ==
    /\ ~fatal
    /\ timer[p].state = "sleep"
    /\ now >= timer[p].wake
    /\ Len(valueChan[p]) < 1
    /\ valueChan' = [valueChan EXCEPT ![p] = Append(@, EmptyString)]
    /\ timer' = [timer EXCEPT ![p] = [state |-> "exit", wake |-> @.wake]]
    /\ UNCHANGED <<found, fatal, data, writer, readers, now, pc, req, frames, ret, callTime, stack>>

\* BQPop's select: receive from valueChan, return, and the deferred Unlock
BQPopSelect(p) ==
    /\ ~fatal
    /\ pc[p] = "select"
    /\ valueChan[p] /= <<>>
    /\ LET value == Head(valueChan[p])
       IN  Return(p, Result(data, value,
                            IF value = EmptyString THEN ErrTimeout ELSE NilError))
    /\ valueChan' = [valueChan EXCEPT ![p] = Tail(@)]
    /\ UNCHANGED <<found, fatal, data, now, req, callTime, timer, stack>>

\* handleRequest writes the response; the caller is free for its next request
Respond(p) ==
    /\ ~fatal
    /\ pc[p] = "done"
    /\ pc' = [pc EXCEPT ![p] = "idle"]
    /\ req' = [req EXCEPT ![p] = NoReq]
    /\ ret' = [ret EXCEPT ![p] = NoRet]
    /\ callTime' = [callTime EXCEPT ![p] = 0]
    /\ timer' = [timer EXCEPT ![p] = NoTimer]
    /\ UNCHANGED <<found, fatal, data, writer, readers, now, frames, valueChan, stack>>

\* the wall clock advances
Tick ==
    /\ ~fatal
    /\ now < MaxTime
    /\ now' = now + 1
    /\ UNCHANGED <<found, fatal, data, writer, readers, pc, req, frames, ret, callTime, valueChan,
                   timer, stack>>

Next ==
    \/ \E p \in Procs, k \in Keys : CallSet(p, k)
    \/ \E p \in Procs, k \in Keys : CallGet(p, k)
    \/ \E p \in Procs, k \in Keys : CallQPush(p, k)
    \/ \E p \in Procs, k \in Keys : CallQPop(p, k)
    \/ \E p \in Procs, k \in Keys : CallBQPop(p, k)
    \/ \E p \in Procs : Lock(p)
    \/ \E p \in Procs : RLock(p)
    \/ \E p \in Procs : SetBody(p)
    \/ \E p \in Procs : GetBody(p)
    \/ \E p \in Procs : GetFinish(p)
    \/ \E p \in Procs : QPushBody(p)
    \/ \E p \in Procs : QPopBody(p)
    \/ \E p \in Procs : BQPopBody(p)
    \/ \E p \in Procs : TimerSend(p)
    \/ \E p \in Procs : BQPopSelect(p)
    \/ \E p \in Procs : Respond(p)
    \/ Tick

\* the whole store: every command, from every caller
Spec == Init /\ [][Next]_vars

\* the queue commands alone: QPUSH, QPOP and BQPOP
NextQueue ==
    \/ \E p \in Procs, k \in Keys : CallQPush(p, k)
    \/ \E p \in Procs, k \in Keys : CallQPop(p, k)
    \/ \E p \in Procs, k \in Keys : CallBQPop(p, k)
    \/ \E p \in Procs : Lock(p)
    \/ \E p \in Procs : QPushBody(p)
    \/ \E p \in Procs : QPopBody(p)
    \/ \E p \in Procs : BQPopBody(p)
    \/ \E p \in Procs : TimerSend(p)
    \/ \E p \in Procs : BQPopSelect(p)
    \/ \E p \in Procs : Respond(p)
    \/ Tick

SpecQueue == Init /\ [][NextQueue]_vars

\* the scalar commands alone: SET and GET
NextKV ==
    \/ \E p \in Procs, k \in Keys : CallSet(p, k)
    \/ \E p \in Procs, k \in Keys : CallGet(p, k)
    \/ \E p \in Procs : Lock(p)
    \/ \E p \in Procs : RLock(p)
    \/ \E p \in Procs : SetBody(p)
    \/ \E p \in Procs : GetBody(p)
    \/ \E p \in Procs : GetFinish(p)
    \/ \E p \in Procs : Respond(p)
    \/ Tick

SpecKV == Init /\ [][NextKV]_vars

\* one caller that sets keys and one that pushes and pops: keys with an
\* expiry that QPUSH and QPOP then find
Setter == 1
NextExpiry ==
    \/ \E k \in Keys : CallSet(Setter, k)
    \/ \E p \in Procs \ {Setter}, k \in Keys : CallQPush(p, k)
    \/ \E p \in Procs \ {Setter}, k \in Keys : CallQPop(p, k)
    \/ \E p \in Procs : Lock(p)
    \/ \E p \in Procs : SetBody(p)
    \/ \E p \in Procs : QPushBody(p)
    \/ \E p \in Procs : QPopBody(p)
    \/ \E p \in Procs : Respond(p)
    \/ Tick

SpecExpiry == Init /\ [][NextExpiry]_vars

\* one caller, one command after the other, on two keys: every command on
\* the first key, SET and GET on the second
NextFrame ==
    \/ \E k \in AllKeys : CallSet(Setter, k)
    \/ \E k \in AllKeys : CallGet(Setter, k)
    \/ \E k \in Keys : CallQPush(Setter, k)
    \/ \E k \in Keys : CallQPop(Setter, k)
    \/ \E k \in Keys : CallBQPop(Setter, k)
    \/ Lock(Setter)
    \/ RLock(Setter)
    \/ SetBody(Setter)
    \/ GetBody(Setter)
    \/ GetFinish(Setter)
    \/ QPushBody(Setter)
    \/ QPopBody(Setter)
    \/ BQPopBody(Setter)
    \/ TimerSend(Setter)
    \/ BQPopSelect(Setter)
    \/ Respond(Setter)
    \/ Tick

SpecFrame == Init /\ [][NextFrame]_vars

\* two callers that read, one of them only that, the other writing too with
\* every other command
Reader == 1
NextReadWrite ==
    \/ \E p \in Procs, k \in Keys : CallGet(p, k)
    \/ \E p \in Procs \ {Reader}, k \in Keys : CallSet(p, k)
    \/ \E p \in Procs \ {Reader}, k \in Keys : CallQPush(p, k)
    \/ \E p \in Procs \ {Reader}, k \in Keys : CallQPop(p, k)
    \/ \E p \in Procs \ {Reader}, k \in Keys : CallBQPop(p, k)
    \/ \E p \in Procs : Lock(p)
    \/ \E p \in Procs : RLock(p)
    \/ \E p \in Procs : SetBody(p)
    \/ \E p \in Procs : GetBody(p)
    \/ \E p \in Procs : GetFinish(p)
    \/ \E p \in Procs : QPushBody(p)
    \/ \E p \in Procs : QPopBody(p)
    \/ \E p \in Procs : BQPopBody(p)
    \/ \E p \in Procs : TimerSend(p)
    \/ \E p \in Procs : BQPopSelect(p)
    \/ \E p \in Procs : Respond(p)
    \/ Tick

SpecReadWrite == Init /\ [][NextReadWrite]_vars

\* one caller that sends whole commands, one after the other, within one
\* tick of the clock
NextHandler ==
    \/ CallCommand(Setter)
    \/ Lock(Setter)
    \/ RLock(Setter)
    \/ SetBody(Setter)
    \/ GetBody(Setter)
    \/ GetFinish(Setter)
    \/ QPushBody(Setter)
    \/ QPopBody(Setter)
    \/ BQPopBody(Setter)
    \/ TimerSend(Setter)
    \/ BQPopSelect(Setter)
    \/ Respond(Setter)

SpecHandler == Init /\ [][NextHandler]_vars

\* what a caller does once its request has arrived: every such step is a
\* runnable goroutine's, and the Go scheduler runs it eventually
Step(p) ==
    \/ Lock(p) \/ RLock(p)
    \/ SetBody(p) \/ GetBody(p) \/ GetFinish(p) \/ QPushBody(p) \/ QPopBody(p) \/ BQPopBody(p)
    \/ TimerSend(p) \/ BQPopSelect(p) \/ Respond(p)

Fairness == (\A p \in Procs : WF_vars(Step(p))) /\ WF_vars(Tick)

FairSpecQueue == SpecQueue /\ Fairness

\* the mutex hands itself to a goroutine that waits in Lock and finds it free
\* again and again: waiters are not overtaken forever
LockFairness == \A p \in Procs : SF_vars(Lock(p))

LockFairSpecQueue == SpecQueue /\ Fairness /\ LockFairness

\* two callers that only block on queues, and a third that pushes and pops
NextWaiters ==
    \/ \E p \in Waiters, k \in Keys : CallBQPop(p, k)
    \/ \E k \in Keys : CallQPush(Pusher, k)
    \/ \E k \in Keys : CallQPop(Pusher, k)
    \/ \E p \in AllProcs : Lock(p)
    \/ \E p \in AllProcs : QPushBody(p)
    \/ \E p \in AllProcs : QPopBody(p)
    \/ \E p \in AllProcs : BQPopBody(p)
    \/ \E p \in AllProcs : TimerSend(p)
    \/ \E p \in AllProcs : BQPopSelect(p)
    \/ \E p \in AllProcs : Respond(p)
    \/ Tick

SpecWaiters == Init /\ [][NextWaiters]_vars

\* the shape of the state, and the bounds the callers keep
TypeOK ==
    /\ DOMAIN data \subseteq AllKeys
    /\ writer \subseteq AllProcs /\ Cardinality(writer) <= 1
    /\ readers \subseteq AllProcs
    /\ now \in 1..MaxTime
    /\ \A k \in DOMAIN data : Len(data[k].value) <= MaxLen
    /\ fatal \in BOOLEAN

\* ------------------------------------------------------------------ claims
\* the store method of caller p returns in this step
Returns(p) == pc[p] /= "done" /\ pc'[p] = "done"

\* the request of p is op, and its method (not one it calls) is at its body
Serving(p, op) == req[p].op = op /\ pc[p] = "body" /\ Len(frames[p]) = 1

Elements(d, k) == IF Has(d, k) THEN Fields(d[k].value) ELSE <<>>

\* C1: after set(k, v) with no expiry, get(k) returns v and evicts nothing.
\* An entry written without EX carries the zero time as its expiry.
C1_GetReturnsSetValue ==
    [][\A p \in Procs :
         (req[p].op = "GET" /\ Returns(p) /\ Has(data, req[p].key)
            /\ data[req[p].key].expiryTime = <<ZeroTime>>)
         => (/\ ret'[p].err = NilError
             /\ ret'[p].value = data[req[p].key].value
             /\ data' = data)]_vars

\* C2: a key that only push and pop touch is a stack of whole elements: pop
\* returns the most recently pushed element not yet popped, and fails only
\* when there is none.
C2_PopIsStackPop ==
    [][\A p \in Procs :
         (Serving(p, "QPOP") /\ Returns(p) /\ ~IsTainted(req[p].key))
         => IF stack[req[p].key] /= <<>>
            THEN /\ ret'[p].err = NilError
                 /\ ret'[p].value = stack[req[p].key][Len(stack[req[p].key])]
            ELSE ret'[p].err /= NilError]_vars

\* C3: pop(k) fails with QueueEmpty exactly when k is absent or has no
\* element, and with no other error.
C3_PopQueueEmptyIffNoElement ==
    [][\A p \in Procs :
         (Serving(p, "QPOP") /\ Returns(p))
         => (/\ ret'[p].err \in {NilError, ErrQueueEmpty}
             /\ (ret'[p].err = ErrQueueEmpty
                   <=> Elements(data, req[p].key) = <<>>))]_vars

\* when the select of BQPop began, and when its timeout is over
WaitStart(p) == timer[p].wake - SleepUnits(req[p].timeout)
Deadline(p) == callTime[p] + req[p].timeout

\* C4: a blockingPop that was waiting when a push on its key arrived, before
\* the deadline, does not end in Timeout with that push still not done.
C4_PushWakesWaiter ==
    \A a \in Procs, b \in Procs :
        (/\ req[a].op = "BQPOP" /\ pc[a] = "done" /\ timer[a].state /= "none"
         /\ req[b].op = "QPUSH" /\ req[b].key = req[a].key
         /\ pc[b] \in {"lock", "body"}
         /\ WaitStart(a) < callTime[b] /\ callTime[b] < Deadline(a))
        => ret[a].err /= ErrTimeout

\* C5: a call suspended in blockingPop's wait does not hold the store mutex.
C5_WaiterHoldsNoLock ==
    \A p \in Procs : pc[p] = "select" => p \notin writer \cup readers

\* blockingPop(k, t) with t > 0 has the lock and finds an element
ImmediateHit(p) ==
    /\ Serving(p, "BQPOP") /\ req[p].timeout > 0
    /\ BQPopBranch(data, req[p].key, req[p].timeout) = "pop"

\* C6: blockingPop(k, t) with t > 0 on a key that has an element terminates
\* with a value.
C6_ImmediateHitReturns ==
    \A p \in Procs :
        ImmediateHit(p) ~> (pc[p] = "done" /\ ret[p].err = NilError)

\* C7: blockingPop(k, 0) is pop(k): same result, same store afterwards, no wait.
C7_ZeroTimeoutIsPop ==
    [][\A p \in Procs :
         (Serving(p, "BQPOP") /\ req[p].timeout = 0 /\ pc'[p] /= "body")
         => LET r == QPop(data, req[p].key, now)
            IN  /\ pc'[p] = "done"
                /\ ret'[p] = [value |-> r.value, err |-> r.err]
                /\ data' = r.data]_vars

\* C8: blockingPop(k, 0) on an absent key or a key without elements returns
\* QueueEmpty at once, never a success.
C8_ZeroTimeoutEmptyIsError ==
    [][\A p \in Procs :
         (Serving(p, "BQPOP") /\ req[p].timeout = 0 /\ pc'[p] /= "body"
            /\ Elements(data, req[p].key) = <<>>)
         => (pc'[p] = "done" /\ ret'[p].err = ErrQueueEmpty)]_vars

\* C9: blockingPop(k, t) with t > 0 on an absent key returns QueueEmpty at
\* once and creates no entry.
C9_AbsentKeyIsQueueEmpty ==
    [][\A p \in Procs :
         (Serving(p, "BQPOP") /\ req[p].timeout > 0 /\ pc'[p] /= "body"
            /\ ~Has(data, req[p].key))
         => (/\ pc'[p] = "done"
             /\ ret'[p].err = ErrQueueEmpty
             /\ data' = data)]_vars

\* C10: blockingPop(k, t) does not return Timeout before t has elapsed since
\* the call.
C10_TimeoutNotEarly ==
    \A p \in Procs :
        (req[p].op = "BQPOP" /\ pc[p] = "done" /\ ret[p].err = ErrTimeout)
        => now >= Deadline(p)

\* blockingPop call p has begun its wait (its Waiter is registered), for a
\* whole number of seconds
Registered(p) ==
    /\ req[p].op = "BQPOP" /\ timer[p].state /= "none"
    /\ SleepUnits(req[p].timeout) = req[p].timeout

\* the last of the values of a push: the one a pop returns first
LastOf(values) == values[Len(values)]

\* C11: with a waiting on k first and b calling blockingPop(k) after it, a
\* push on k that arrives before a's deadline delivers its value to a, and b
\* stays in its call.
C11_PushServesFirstWaiter ==
    [][\A a \in AllProcs, b \in AllProcs, c \in AllProcs :
         (/\ a /= b /\ c \notin {a, b}
          /\ Serving(c, "QPUSH") /\ Returns(c)
          /\ Registered(a) /\ req[a].key = req[c].key
          /\ req[b].op = "BQPOP" /\ req[b].key = req[c].key /\ req[b].timeout > 0
          /\ pc[b] /= "done"
          /\ WaitStart(a) <= callTime[b] /\ callTime[b] <= callTime[c]
          /\ callTime[c] < Deadline(a))
         => (/\ pc'[a] = "done" /\ ret'[a].err = NilError
             /\ ret'[a].value = LastOf(req[c].values)
             /\ pc'[b] /= "done")]_vars

\* C12: push(k, v) that arrives while a blockingPop is waiting on k, before
\* its deadline, hands v to the waiter and leaves k's sequence as it was.
C12_PushToWaiterNotAppended ==
    [][\A a \in Procs, b \in Procs :
         (/\ Serving(b, "QPUSH") /\ Returns(b) /\ Len(req[b].values) = 1
          /\ Registered(a) /\ req[a].key = req[b].key
          /\ WaitStart(a) <= callTime[b] /\ callTime[b] < Deadline(a))
         => Elements(data', req[b].key) = Elements(data, req[b].key)]_vars

\* C13: a blockingPop call ends as ImmediateHit (the top element),
\* ImmediateEmpty (an error, nothing to pop), Fulfilled (a pushed value) or
\* Expired (Timeout, no value), and as only one of them; it waits only with a
\* timeout > 0 on a queue without elements.
C13_OneTerminalOutcome ==
    [][\A p \in Procs :
         (req[p].op = "BQPOP" /\ Returns(p))
         => LET elements == Elements(data, req[p].key)
                value == ret'[p].value
                err == ret'[p].err
            IN  IF timer[p].state = "none"
                THEN \/ /\ err = NilError /\ elements /= <<>>
                        /\ value = elements[Len(elements)]
                     \/ /\ err /= NilError /\ value = EmptyString
                        /\ elements = <<>>
                ELSE /\ req[p].timeout > 0 /\ elements = <<>>
                     /\ \/ err = NilError /\ value /= EmptyString
                        \/ err = ErrTimeout /\ value = EmptyString]_vars

\* C14: on a key that only push, pop and blockingPop have touched, the
\* elements in the store are exactly the elements pushed and not yet returned
\* by a pop, in the order of their pushes.
C14_NoElementLost ==
    \A k \in Keys : ~IsTainted(k) => Elements(data, k) = stack[k]

\* blockingPop call a has returned Timeout and the handler has yet to answer
TimedOut(a) == req[a].op = "BQPOP" /\ pc[a] = "done" /\ ret[a].err = ErrTimeout

C16_MutationUnderWriteLock ==
    [][data' /= data => \E p \in writer : pc[p] = "body"]_vars

\* C17: set with NX fails with KeyExists exactly when the map holds an entry
\* for the key (stale or not), set with XX fails with KeyMissing exactly when
\* it holds none, and every other set succeeds and writes its value.
C17_SetConditions ==
    [][\A p \in Procs :
         (Serving(p, "SET") /\ Returns(p))
         => LET present == req[p].key \in DOMAIN data
                err == ret'[p].err
            IN  /\ err \in {NilError, ErrKeyExists, ErrKeyMissing}
                /\ err = ErrKeyExists <=> (req[p].condition = "NX" /\ present)
                /\ err = ErrKeyMissing <=> (req[p].condition = "XX" /\ ~present)
                /\ err = NilError
                     => (/\ req[p].key \in DOMAIN data'
                         /\ data'[req[p].key].value = req[p].value)
                /\ err /= NilError => data' = data]_vars

\* a set with NX has failed on an entry whose expiry has elapsed
C17_Witness ==
    \E p \in Procs :
        /\ req[p].op = "SET" /\ pc[p] = "done"
        /\ req[p].condition = "NX" /\ ret[p].err = ErrKeyExists
        /\ Has(data, req[p].key) /\ Expired(data[req[p].key], now)
        /\ data[req[p].key].expiryTime /= <<ZeroTime>>

\* caller p has a set(k, v, NX) request
CreateOnly(p) == req[p].op = "SET" /\ req[p].condition = "NX"

\* C18: of two callers creating the same key with NX, the one whose Set runs
\* while the key is absent succeeds and the map gets its entry; the one whose
\* Set runs while the key is present fails with KeyExists and leaves the
\* entry alone.  Set runs alone in the store.
C18_CreateIsAtomic ==
    [][\A p \in Procs : \A q \in Procs \ {p} :
         (/\ Serving(p, "SET") /\ Returns(p) /\ CreateOnly(p)
          /\ CreateOnly(q) /\ req[q].key = req[p].key /\ pc[q] \in {"lock", "done"})
         => (/\ writer = {p} /\ readers = {}
             /\ IF Has(data, req[p].key)
                THEN ret'[p].err = ErrKeyExists /\ data' = data
                ELSE /\ ret'[p].err = NilError
                     /\ DOMAIN data' = DOMAIN data \cup {req[p].key}
                     /\ data'[req[p].key].value = req[p].value
                     /\ \A k \in DOMAIN data : data'[k] = data[k])]_vars

\* two creations of one key with different values: one won, the other failed
C18_Witness ==
    \E p \in Procs : \E q \in Procs \ {p} :
        /\ CreateOnly(p) /\ CreateOnly(q) /\ req[q].key = req[p].key
        /\ pc[p] = "done" /\ pc[q] = "done"
        /\ req[p].value /= req[q].value
        /\ ret[p].err = NilError /\ ret[q].err = ErrKeyExists
        /\ Has(data, req[p].key) /\ data[req[p].key].value = req[p].value

\* the Get of p is about to apply its expiry test to an entry that was set
\* with an expiry (EX d) which has elapsed
GetsElapsed(p) ==
    /\ req[p].op = "GET" /\ pc[p] = "found"
    /\ found[p][1].expiryTime /= <<ZeroTime>>
    /\ Expired(found[p][1], now)

\* C19: get(k) on an entry whose expiry d >= 0 has elapsed returns the error
\* NotFound and no value, and k is absent afterwards.
C19_ElapsedGetIsNotFound ==
    [][\A p \in Procs :
         (GetsElapsed(p) /\ Returns(p))
         => (/\ ret'[p].err = ErrNotFound
             /\ ret'[p].value = EmptyString
             /\ ~Has(data', req[p].key))]_vars

\* the entry of k was set with an expiry (EX d) which has elapsed
Elapsed(k) ==
    /\ Has(data, k) /\ data[k].expiryTime /= <<ZeroTime>>
    /\ Expired(data[k], now)

\* C20: an entry whose expiry has elapsed is as good as absent: push(k, a)
\* onto it starts a fresh sequence, of the pushed values alone, and the next
\* pop(k) returns the pushed value.
C20_PushOnElapsedIsFresh ==
    [][\A p \in Procs :
         (Serving(p, "QPUSH") /\ Returns(p) /\ Elapsed(req[p].key))
         => (/\ Elements(data', req[p].key) = req[p].values
             /\ LET r == QPop(data', req[p].key, now)
                IN  r.err = NilError /\ r.value = LastOf(req[p].values))]_vars

\* C21: a call that returns an error leaves the store as it was: the same
\* keys, values and expiries.
C21_ErrorLeavesStore ==
    [][\A p \in Procs :
         (Returns(p) /\ ret'[p].err /= NilError) => data' = data]_vars

\* the entry of k is a scalar written by set, with an expiry still ahead
HoldsScalar(k) ==
    /\ Has(data, k) /\ data[k].value \in Tokens
    /\ data[k].expiryTime /= <<>> /\ ~Expired(data[k], now)

\* C22: push(k, a) on a key that holds a scalar makes a the last element of
\* its own: the next pop(k) returns a.
C22_PushOnScalarIsElement ==
    [][\A p \in Procs :
         (/\ Serving(p, "QPUSH") /\ Returns(p) /\ Len(req[p].values) = 1
          /\ HoldsScalar(req[p].key))
         => LET r == QPop(data', req[p].key, now)
            IN  r.err = NilError /\ r.value = req[p].values[1]]_vars

\* the entry of k in d, or nothing
EntryOf(d, k) == IF Has(d, k) THEN <<d[k]>> ELSE <<>>

\* C23: the entry of a key changes only in a step of a call on that key: a
\* call on k leaves the entries of all other keys as they were.
C23_OtherKeysUnchanged ==
    [][\A k \in AllKeys :
         EntryOf(data', k) /= EntryOf(data, k)
         => \E p \in Procs : req[p].key = k /\ pc[p] /= pc'[p]]_vars

\* a pop has removed its key from the map while another key has an entry
C23_Witness ==
    \E p \in Procs :
        /\ req[p].op = "QPOP" /\ pc[p] = "done" /\ ret[p].err = ErrQueueEmpty
        /\ ~Has(data, req[p].key)
        /\ \E k \in AllKeys \ {req[p].key} : Has(data, k)

\* strings.ToUpper on the letters the verbs are spelled with
UpperOf ==
    ("s" :> "S") @@ ("e" :> "E") @@ ("t" :> "T") @@ ("g" :> "G")
ToUpper(s) ==
    [i \in 1..Len(s) |-> IF s[i] \in DOMAIN UpperOf THEN UpperOf[s[i]] ELSE s[i]]

KnownVerbs == {SET, GET, QPUSH, QPOP, BQPOP}

\* a command arrives at caller p in this step, and what the handler makes of it
Arrives(p) == pc[p] = "idle" /\ req'[p].parts /= <<>>
Answered(p, err) == pc'[p] = "done" /\ ret'[p].err = err
CallsStore(p) == pc'[p] \in {"lock", "rlock"}

\* C24: a command of two tokens or more whose verb is none of the five, in
\* any spelling, is answered with 'invalid command' and the store stays as
\* it is.
C24_UnknownVerbIsInvalidCommand ==
    [][\A p \in Procs :
         (/\ Arrives(p) /\ Len(req'[p].parts) >= 2
          /\ ToUpper(req'[p].parts[1]) \notin KnownVerbs)
         => (Answered(p, ErrInvalidCommand) /\ data' = data)]_vars

\* C25: a command whose verb is one of the five in another spelling (set,
\* Get) is handled as the same command with the verb in capitals: the same
\* store call, or the same answer.
C25_VerbCaseInsensitive ==
    [][\A p \in Procs :
         (/\ Arrives(p)
          /\ ToUpper(req'[p].parts[1]) /= req'[p].parts[1]
          /\ ToUpper(req'[p].parts[1]) \in KnownVerbs)
         => LET parts == req'[p].parts
                h == HandleRequest(<<ToUpper(parts[1])>> \o Tail(parts), now)
            IN  IF h.call
                THEN CallsStore(p) /\ req'[p] = [h.req EXCEPT !.parts = parts]
                ELSE Answered(p, h.err)]_vars

\* the option tokens of SET <key> <value> [EX <seconds>] [NX|XX]
SetOptionsShape(opts) ==
    \/ opts = <<>>
    \/ Len(opts) = 1 /\ opts[1] \in {NX, XX}
    \/ Len(opts) = 2 /\ opts[1] = EX
    \/ Len(opts) = 3 /\ opts[1] = EX /\ opts[3] \in {NX, XX}

\* the tokens of a command fit the shape its verb accepts
ShapeOK(parts) ==
    CASE parts[1] = SET ->
           Len(parts) >= 3 /\ SetOptionsShape(SubSeq(parts, 4, Len(parts)))
      [] parts[1] \in {GET, QPOP} -> Len(parts) = 2
      [] parts[1] = QPUSH -> Len(parts) >= 3
      [] parts[1] = BQPOP -> Len(parts) = 3
      [] OTHER -> FALSE

\* C26: a command of one of the five verbs whose tokens do not fit the
\* verb's shape is answered with 'invalid command' and no store method is
\* called for it.
C26_BadShapeIsInvalidCommand ==
    [][\A p \in Procs :
         (/\ Arrives(p) /\ req'[p].parts[1] \in KnownVerbs
          /\ ~ShapeOK(req'[p].parts))
         => (Answered(p, ErrInvalidCommand) /\ ~CallsStore(p))]_vars

\* the command is SET <key> <value> EX <n> ... with n < 0, or BQPOP <key> <t>
\* with t < 0
NegativeNumber(parts) ==
    \/ /\ parts[1] = SET /\ Len(parts) >= 5 /\ parts[4] = EX
       /\ Atoi(parts[5]).ok /\ Atoi(parts[5]).n < 0
    \/ /\ parts[1] = BQPOP /\ Len(parts) = 3
       /\ ParseFloat(parts[3]).ok /\ ParseFloat(parts[3]).n < 0

\* C27: a SET with negative EX seconds and a BQPOP with a negative timeout
\* are answered with an error and no store method is called for them.
C27_NegativeNumberRejected ==
    [][\A p \in Procs :
         (Arrives(p) /\ NegativeNumber(req'[p].parts))
         => (~CallsStore(p) /\ pc'[p] = "done" /\ ret'[p].err /= NilError)]_vars

\* caller p is between its method's Lock or RLock and the deferred unlock
InSection(p) ==
    \/ pc[p] \in {"body", "found", "select"}
    \/ pc[p] = "lock" /\ Len(frames[p]) > 1

\* C28: while a get is inside its locked section, every other call inside
\* a locked section is a get too; two gets can be inside together.
C28_ReadsExcludeWrites ==
    \A p \in Procs, q \in Procs :
        (p /= q /\ InSection(p) /\ InSection(q) /\ req[p].op = "GET")
        => req[q].op = "GET"

\* two gets are inside their locked sections at the same time
C28_Witness ==
    \E p \in Procs, q \in Procs :
        /\ p /= q /\ InSection(p) /\ InSection(q)
        /\ req[p].op = "GET" /\ req[q].op = "GET"

\* C29: with every runnable caller scheduled again and again, a caller that
\* holds the mutex for writing releases it, and a push or pop that waits
\* for the mutex returns.
C29_NoDeadlock ==
    \A p \in Procs :
        /\ (p \in writer) ~> (p \notin writer)
        /\ (req[p].op \in {"QPUSH", "QPOP"} /\ pc[p] = "lock") ~> (pc[p] = "done")

\* value is one of the elements of the sequence elems
IsElement(value, elems) == \E i \in 1..Len(elems) : elems[i] = value

\* C30: a pop or blockingPop that succeeds returns a non-empty value, and
\* on a key that only the queue commands have touched that value is one of
\* the elements pushed and not yet returned.
C30_PopReturnsPushedElement ==
    [][\A p \in Procs :
         (/\ req[p].op \in {"QPOP", "BQPOP"} /\ Returns(p)
          /\ ret'[p].err = NilError)
         => (/\ ret'[p].value /= EmptyString
             /\ ~IsTainted(req[p].key)
                  => IsElement(ret'[p].value, stack[req[p].key]))]_vars

\* C31: a pop that returns the only element of k leaves k present with no
\* element; a pop that finds k present with no element deletes k; and on
\* an absent key a create-only set succeeds while an update-only set fails.
C31_LastPopKeepsKeyNextPopDeletes ==
    [][\A p \in Procs :
         /\ (Serving(p, "QPOP") /\ Returns(p))
            => LET k == req[p].key
               IN  /\ (ret'[p].err = NilError /\ Len(Elements(data, k)) = 1)
                      => (Has(data', k) /\ Elements(data', k) = <<>>)
                   /\ (Has(data, k) /\ Elements(data, k) = <<>>)
                      => (~Has(data', k) /\ ret'[p].err = ErrQueueEmpty)
         /\ (Serving(p, "SET") /\ Returns(p) /\ ~Has(data, req[p].key))
            => /\ req[p].condition = "NX" => ret'[p].err = NilError
               /\ req[p].condition = "XX" => ret'[p].err = ErrKeyMissing]_vars

\* a pop has returned the only element of a key that a push created: the
\* key is still present with no element, and a create-only set on it failed
C31_Witness ==
    \E p \in Procs : \E q \in Procs \ {p} :
        /\ pc[p] = "done" /\ req[p].op = "QPOP"
        /\ ret[p].err = NilError /\ ret[p].value = <<"a">>
        /\ Has(data, req[p].key)
        /\ data[req[p].key] = KeyValue(EmptyString, <<>>)
        /\ pc[q] = "done" /\ req[q].op = "SET" /\ req[q].key = req[p].key
        /\ req[q].condition = "NX" /\ ret[q].err = ErrKeyExists

\* C32: a get(k) that returns leaves the whole store as it was, unless k
\* was set with an expiry which has elapsed, and then all it does is remove k.
C32_GetOnlyEvictsElapsed ==
    [][\A p \in Procs :
         (req[p].op = "GET" /\ Returns(p))
         => \/ data' = data
            \/ Elapsed(req[p].key) /\ data' = Delete(data, req[p].key)]_vars

\* the expiry a set call supplies: none when the command has no EX
SuppliedExpiry(p) ==
    IF req[p].expiryTime = ZeroTime THEN <<>> ELSE <<req[p].expiryTime>>

\* C33: a set without condition succeeds and replaces the entry of k: the
\* value is the one of the call, the expiry is the one the call supplied
\* and is absent when it supplied none, and nothing of the earlier entry
\* remains.
C33_UnconditionalSetReplaces ==
    [][\A p \in Procs :
         (Serving(p, "SET") /\ Returns(p) /\ req[p].condition = "")
         => (/\ ret'[p].err = NilError /\ ret'[p].value = OK
             /\ Has(data', req[p].key)
             /\ data'[req[p].key] = KeyValue(req[p].value, SuppliedExpiry(p)))]_vars

\* the sleep of p's timer goroutine is over and its send is still to come
TimerDue(p) == timer[p].state = "sleep" /\ now >= timer[p].wake

\* a value is sent on p's valueChan in this step
Sends(p) == Len(valueChan'[p]) > Len(valueChan[p])

\* every send on valueChan is the one send of the call's timer goroutine,
\* into the empty channel, after which the goroutine has exited
OneSend ==
    [][\A p \in Procs :
         Sends(p) => (/\ TimerDue(p) /\ valueChan[p] = <<>>
                      /\ timer'[p].state = "exit")]_vars

\* the send finds room in the channel of capacity 1
SendNeverBlocks ==
    [](\A p \in Procs :
         TimerDue(p) => (Len(valueChan[p]) < 1 /\ ENABLED TimerSend(p)))

\* C34: in the wait of BQPop the timer goroutine sends once on valueChan,
\* the send never blocks, the goroutine terminates, and the waiting select
\* completes once the timeout has elapsed.
C34_TimerSendsOnceSelectCompletes ==
    /\ OneSend
    /\ SendNeverBlocks
    /\ \A p \in Procs :
         /\ TimerDue(p) ~> (timer[p].state = "exit")
         /\ (pc[p] = "select" /\ now >= timer[p].wake) ~> (pc[p] = "done")

\* a BQPop that waited has returned 'timeout exceeded': its timer goroutine
\* has exited and its channel is empty again
C34_Witness ==
    \E p \in Procs :
        /\ pc[p] = "done" /\ req[p].op = "BQPOP" /\ req[p].timeout > 0
        /\ ret[p].err = ErrTimeout
        /\ timer[p].state = "exit" /\ now >= timer[p].wake
        /\ valueChan[p] = <<>>

====
